---- MODULE Spec2Model ----
(***************************************************************************)
(* Model of the documentation service of anthropic-docs-mcp-server: the    *)
(* catalogue (constants.ts), the cost calculator, the keyword search and   *)
(* the per-model lookups (services/docs-service.ts).                       *)
(*                                                                         *)
(* Numbers.  The service computes with JavaScript numbers.  Token counts   *)
(* are integers; prices, multipliers, ratios and costs are modelled as     *)
(* exact rationals [n, d] in lowest terms with d > 0.  IEEE-754 rounding   *)
(* of the individual operations is not part of the model.                  *)
(*                                                                         *)
(* Strings are TLA+ strings, i.e. sequences of characters: Len, SubSeq     *)
(* and \o take them apart and put them together.                           *)
(***************************************************************************)
EXTENDS Integers, Sequences, FiniteSets, TLC

VARIABLES
    catalogue,     \* CLAUDE_MODELS, the object the service reads
    multipliers,   \* PRICING_MULTIPLIERS
    pc,            \* "idle": no call in progress; "done": a call has returned or thrown
    call,          \* the invocation: [op |-> ..., and its arguments]
    ret,           \* what the invocation produced: [kind |-> ..., ...]
    memo,          \* history: an earlier invocation and its outcome, kept by a caller
    handler,       \* HTTP mode: where the handler of each POST /mcp request stands
    transport,     \* HTTP mode: the transport each request created: none, open, closed
    serverTransport  \* HTTP mode: the request whose transport the shared server is
                     \* connected to, 0 when it is connected to none

vars == <<catalogue, multipliers, pc, call, ret, memo, handler, transport, serverTransport>>

\* the variables of the HTTP transport, and those of the documentation service
httpVars == <<handler, transport, serverTransport>>

serviceVars == <<catalogue, multipliers, pc, call, ret, memo>>

----------------------------------------------------------------------------
(* Exact rational arithmetic *)

RECURSIVE GCD(_, _)
GCD(a, b) == IF b = 0 THEN a ELSE GCD(b, a % b)

Abs(x) == IF x < 0 THEN -x ELSE x

\* n/d in lowest terms, d > 0
Norm(n, d) ==
    LET g == GCD(Abs(n), d)
    IN  [n |-> n \div g, d |-> d \div g]

Num(i) == [n |-> i, d |-> 1]

Zero == Num(0)

RAdd(a, b) ==
    LET g == GCD(a.d, b.d)
        l == (a.d \div g) * b.d
    IN  Norm(a.n * (l \div a.d) + b.n * (l \div b.d), l)

RNeg(a) == [n |-> -a.n, d |-> a.d]

RSub(a, b) == RAdd(a, RNeg(b))

RMul(a, b) ==
    LET g1 == GCD(Abs(a.n), b.d)
        g2 == GCD(Abs(b.n), a.d)
    IN  Norm((a.n \div g1) * (b.n \div g2), (a.d \div g2) * (b.d \div g1))

\* a / i for a positive integer i
RDivInt(a, i) == RMul(a, [n |-> 1, d |-> i])

RLt(a, b) == RSub(a, b).n < 0

RLe(a, b) == RSub(a, b).n <= 0

RPos(a) == a.n > 0

----------------------------------------------------------------------------
(* constants.ts *)

\* Object.entries(CLAUDE_MODELS) order: the order of the object literal
ModelKeys == <<"opus_4_5", "sonnet_4_5", "haiku_4_5">>

CLAUDE_MODELS ==
    [ opus_4_5 |->
        [ name |-> "Claude Opus 4.5",
          apiId |-> "claude-opus-4-5-20251101",
          alias |-> "claude-opus-4-5",
          tier |-> "flagship",
          releaseDate |-> "2025-11-24",
          knowledgeCutoff |-> "March 2025",
          contextWindow |-> 200000,
          maxOutput |-> 64000,
          pricing |->
            [ input |-> Norm(500, 100),
              output |-> Norm(2500, 100),
              cacheWrite5min |-> Norm(625, 100),
              cacheWrite1hr |-> Norm(1000, 100),
              cacheRead |-> Norm(50, 100),
              batchDiscount |-> "50%" ],
          features |-> <<
              "Extended thinking (preserved across turns by default)",
              "Effort parameter (low/medium/high)",
              "Computer use + zoom tool",
              "Context awareness",
              "Vision (images, PDFs, spreadsheets)",
              "Best-in-class coding (80.9% SWE-bench Verified)",
              "Memory tool for persistent state",
              "Context compaction"
              >> ],
      sonnet_4_5 |->
        [ name |-> "Claude Sonnet 4.5",
          apiId |-> "claude-sonnet-4-5-20250929",
          alias |-> "claude-sonnet-4-5",
          tier |-> "balanced",
          releaseDate |-> "2025-09-29",
          knowledgeCutoff |-> "January 2025",
          contextWindow |-> 200000,
          contextWindowExtended |-> 1000000,
          maxOutput |-> 64000,
          pricing |->
            [ input |-> Norm(300, 100),
              output |-> Norm(1500, 100),
              cacheWrite5min |-> Norm(375, 100),
              cacheWrite1hr |-> Norm(600, 100),
              cacheRead |-> Norm(30, 100),
              longContextInput |-> Norm(600, 100),
              longContextOutput |-> Norm(2250, 100),
              batchDiscount |-> "50%" ],
          features |-> <<
              "Extended thinking",
              "1M context window (beta, tier 4+)",
              "Computer use",
              "Context awareness",
              "Vision",
              "77.2% SWE-bench Verified",
              "Best balance of speed/cost/quality"
              >> ],
      haiku_4_5 |->
        [ name |-> "Claude Haiku 4.5",
          apiId |-> "claude-haiku-4-5-20251001",
          alias |-> "claude-haiku-4-5",
          tier |-> "fast",
          releaseDate |-> "2025-10-15",
          knowledgeCutoff |-> "February 2025",
          contextWindow |-> 200000,
          maxOutput |-> 64000,
          pricing |->
            [ input |-> Norm(100, 100),
              output |-> Norm(500, 100),
              cacheWrite5min |-> Norm(125, 100),
              cacheWrite1hr |-> Norm(200, 100),
              cacheRead |-> Norm(10, 100),
              batchDiscount |-> "50%" ],
          features |-> <<
              "Extended thinking",
              "Computer use",
              "Context awareness",
              "Vision",
              "73.3% SWE-bench Verified",
              "4-5x faster than Sonnet 4.5",
              "Best for high-volume, latency-sensitive tasks"
              >> ] ]

\* mutant: the cache-read factor no longer matches the price tables
PRICING_MULTIPLIERS_StaleCacheRead ==
    [ cacheWrite5min |-> Norm(125, 100),
      cacheWrite1hr |-> Norm(200, 100),
      cacheRead |-> Norm(25, 100),
      batchDiscount |-> Norm(50, 100),
      longContextInput |-> Norm(200, 100),
      longContextOutput |-> Norm(150, 100) ]

PRICING_MULTIPLIERS ==
    [ cacheWrite5min |-> Norm(125, 100),
      cacheWrite1hr |-> Norm(200, 100),
      cacheRead |-> Norm(10, 100),
      batchDiscount |-> Norm(50, 100),
      longContextInput |-> Norm(200, 100),
      longContextOutput |-> Norm(150, 100) ]

----------------------------------------------------------------------------
(* JavaScript property access on an object literal *)

\* Properties every object literal inherits from Object.prototype
ObjectPrototypeKeys ==
    { "constructor", "__proto__", "hasOwnProperty", "isPrototypeOf",
      "propertyIsEnumerable", "toLocaleString", "toString", "valueOf",
      "__defineGetter__", "__defineSetter__", "__lookupGetter__", "__lookupSetter__" }

\* table[key]: an own property, else a property inherited from Object.prototype
\* (a function, or for "__proto__" the prototype object itself), else undefined
GetProperty(table, key) ==
    IF key \in DOMAIN table
    THEN [kind |-> "own", value |-> table[key]]
    ELSE IF key \in ObjectPrototypeKeys
         THEN [kind |-> "inherited",
               type |-> IF key = "__proto__" THEN "object" ELSE "function"]
         ELSE [kind |-> "undefined"]

\* !x is false for every object and function, true for undefined
Falsy(prop) == prop.kind = "undefined"

\* an optional numeric field used as a condition: present and not 0
TruthyField(rec, field) == field \in DOMAIN rec /\ rec[field].n # 0

----------------------------------------------------------------------------
(* Number formatting *)

Million == 1000000

\* x.toFixed(digits) of a non-negative amount, as the nearest whole number of
\* units of 1/scale, scale = 10^digits
toFixed(x, scale) ==
    LET m == RMul(x, Num(scale))
        q == m.n \div m.d
        r == m.n % m.d
    IN  IF 2 * r >= m.d THEN q + 1 ELSE q

----------------------------------------------------------------------------
(* docs-service.ts: what a call produces, and the per-model lookups *)

\* What a call produces: a returned string (an error message, a JSON document, a
\* markdown document), the value undefined, or a thrown TypeError
ErrorString(message, modelKey) ==
    [kind |-> "error", message |-> message, modelKey |-> modelKey]

Json(value) == [kind |-> "json", value |-> value]

Markdown(value) == [kind |-> "markdown", value |-> value]

Thrown == [kind |-> "throw", error |-> "TypeError"]

\* JSON.stringify of a function is the value undefined, not a string
ReturnedUndefined == [kind |-> "undefined"]

CONTEXT_LIMITS ==
    [ standard |-> 200000, extended |-> 1000000, maxOutput |-> 64000,
      longContextThreshold |-> 200000 ]

THINKING_CONFIG ==
    [ minBudget |-> 1024, recommendedStart |-> 16000,
      largeBudgetThreshold |-> 32000, maxWithInterleaved |-> 200000 ]

Cents == 100

toFixed2(x) == toFixed(x, Cents)

\* the fields of a model that formatModelMarkdown prints
formatModelMarkdown(model) ==
    [ name |-> model.name,
      apiId |-> model.apiId,
      alias |-> model.alias,
      tier |-> model.tier,
      releaseDate |-> model.releaseDate,
      knowledgeCutoff |-> model.knowledgeCutoff,
      contextWindow |-> model.contextWindow,
      contextWindowExtended |->
          IF "contextWindowExtended" \in DOMAIN model
          THEN <<model.contextWindowExtended>> ELSE <<>>,
      maxOutput |-> model.maxOutput,
      input |-> toFixed2(model.pricing.input),
      output |-> toFixed2(model.pricing.output),
      longContextInput |->
          IF TruthyField(model.pricing, "longContextInput")
          THEN <<toFixed2(model.pricing.longContextInput)>> ELSE <<>>,
      longContextOutput |->
          IF TruthyField(model.pricing, "longContextOutput")
          THEN <<toFixed2(model.pricing.longContextOutput)>> ELSE <<>>,
      batchDiscount |-> model.pricing.batchDiscount,
      features |-> model.features ]

getModelInfo(modelKey, format) ==
    IF modelKey = "all"
    THEN IF format = "json"
         THEN Json(catalogue)
         ELSE Markdown([i \in 1..Len(ModelKeys) |->
                           formatModelMarkdown(catalogue[ModelKeys[i]])])
    ELSE LET model == GetProperty(catalogue, modelKey)
         IN  IF Falsy(model)
             THEN ErrorString("Error: Model not found. Available: opus_4_5, sonnet_4_5, haiku_4_5",
                              modelKey)
             ELSE IF format = "json"
             THEN IF model.kind = "own" THEN Json(model.value)
                  ELSE IF model.type = "function" THEN ReturnedUndefined
                  ELSE Json(<<>>)   \* Object.prototype has no enumerable property
             ELSE IF model.kind = "own" THEN Markdown(formatModelMarkdown(model.value))
                  ELSE Thrown   \* model.contextWindow is undefined: .toLocaleString() throws

\* modelKey === "all" ? Object.entries(CLAUDE_MODELS)
\*                    : [[modelKey, CLAUDE_MODELS[modelKey]]].filter(([_, m]) => m)
selectedModels(modelKey) ==
    IF modelKey = "all"
    THEN [i \in 1..Len(ModelKeys) |->
             [key |-> ModelKeys[i], model |-> GetProperty(catalogue, ModelKeys[i])]]
    ELSE LET model == GetProperty(catalogue, modelKey)
         IN  IF Falsy(model) THEN <<>> ELSE <<[key |-> modelKey, model |-> model]>>

pricingJsonEntry(entry, includeDiscounts) ==
    IF entry.model.kind = "own"
    THEN [ key |-> entry.key, model |-> entry.model.value.name,
           pricing |-> entry.model.value.pricing,
           multipliers |-> IF includeDiscounts THEN <<multipliers>> ELSE <<>> ]
    ELSE [ key |-> entry.key,     \* name and pricing are not those of a catalogue model
           multipliers |-> IF includeDiscounts THEN <<multipliers>> ELSE <<>> ]

pricingMarkdownRow(model) ==
    [ name |-> model.name, input |-> toFixed2(model.pricing.input),
      output |-> toFixed2(model.pricing.output),
      batchDiscount |-> model.pricing.batchDiscount ]

getPricing(modelKey, includeDiscounts, format) ==
    LET models == selectedModels(modelKey)
    IN  IF Len(models) = 0
        THEN ErrorString("Error: Model not found.", modelKey)
        ELSE IF format = "json"
        THEN Json([i \in 1..Len(models) |-> pricingJsonEntry(models[i], includeDiscounts)])
        ELSE IF \E i \in 1..Len(models) : models[i].model.kind = "inherited"
        THEN Thrown   \* model.pricing is undefined: reading .input throws
        ELSE Markdown([ rows |-> [i \in 1..Len(models) |->
                                     pricingMarkdownRow(models[i].model.value)],
                        discounts |-> IF includeDiscounts THEN <<multipliers>> ELSE <<>> ])

tokenLimitsJsonEntry(entry) ==
    IF entry.model.kind = "own"
    THEN [ key |-> entry.key,
           contextWindow |-> entry.model.value.contextWindow,
           contextWindowExtended |->
               IF "contextWindowExtended" \in DOMAIN entry.model.value
               THEN <<entry.model.value.contextWindowExtended>> ELSE <<>>,
           maxOutput |-> entry.model.value.maxOutput ]
    ELSE [ key |-> entry.key ]   \* every field is undefined and is left out

\* x / 1000 as printed in the table (the catalogue's sizes are whole thousands)
Thousand == 1000

tokenLimitsMarkdownRow(entry) ==
    IF entry.model.kind = "own"
    THEN [ name |-> entry.model.value.name,
           contextWindow |-> <<entry.model.value.contextWindow \div Thousand, "K">>,
           extended |->
               IF "contextWindowExtended" \in DOMAIN entry.model.value
               THEN <<entry.model.value.contextWindowExtended \div Thousand, "K (beta)">>
               ELSE <<"N/A">>,
           maxOutput |-> <<entry.model.value.maxOutput \div Thousand, "K">> ]
    ELSE [ name |-> <<>>,          \* undefined / 1000 is NaN
           contextWindow |-> <<"NaN", "K">>,
           extended |-> <<"N/A">>,
           maxOutput |-> <<"NaN", "K">> ]

\* no check for an empty selection: an unknown key gives a table without rows
getTokenLimits(modelKey, format) ==
    LET models == selectedModels(modelKey)
    IN  IF format = "json"
        THEN Json([ models |-> [i \in 1..Len(models) |-> tokenLimitsJsonEntry(models[i])],
                    limits |-> CONTEXT_LIMITS,
                    thinking |-> [ minBudget |-> THINKING_CONFIG.minBudget,
                                   recommendedStart |-> THINKING_CONFIG.recommendedStart,
                                   largeBudgetThreshold |->
                                       THINKING_CONFIG.largeBudgetThreshold ] ])
        ELSE Markdown([ rows |-> [i \in 1..Len(models) |-> tokenLimitsMarkdownRow(models[i])],
                        thinking |-> THINKING_CONFIG ])

----------------------------------------------------------------------------
(* docs-service.ts: cost calculator *)

\* mutant: the thinking tokens are left out of the billed output
totalOutputTokensWithoutThinking(outputTokens, thinkingTokens) == outputTokens

totalOutputTokensOf(outputTokens, thinkingTokens) == outputTokens + thinkingTokens

\* mutant: the long-context input price is never selected
selectInputPriceIgnoringLongContext(pricing, longContext) == pricing.input

selectInputPrice(pricing, longContext) ==
    IF longContext /\ TruthyField(pricing, "longContextInput")
    THEN pricing.longContextInput
    ELSE pricing.input

\* mutant: the output tokens are charged the input price
selectOutputPriceAsInput(pricing, longContext) == selectInputPrice(pricing, longContext)

selectOutputPrice(pricing, longContext) ==
    IF longContext /\ TruthyField(pricing, "longContextOutput")
    THEN pricing.longContextOutput
    ELSE pricing.output

\* mutant: the price is applied per thousand tokens
perThousand(tokens, price) == RMul(RDivInt(tokens, Thousand), price)

\* (tokens / 1_000_000) * price, tokens a rational number of tokens
perMillion(tokens, price) == RMul(RDivInt(tokens, Million), price)

\* mutant: every input token is counted as a cache hit
cacheHitsUnscaled(inputTokens, cacheHitRatio) == Num(inputTokens)

cacheHitsOf(inputTokens, cacheHitRatio) == RMul(Num(inputTokens), cacheHitRatio)

\* mutant: the share of misses is computed as ratio - 1
cacheMissesNegated(inputTokens, cacheHitRatio) ==
    RMul(Num(inputTokens), RSub(cacheHitRatio, Num(1)))

cacheMissesOf(inputTokens, cacheHitRatio) ==
    RMul(Num(inputTokens), RSub(Num(1), cacheHitRatio))

\* mutant: cache hits are charged the full input price
cacheHitCostAtFullPrice(inputTokens, cacheHitRatio, inputPrice) ==
    perMillion(cacheHitsOf(inputTokens, cacheHitRatio), inputPrice)

cacheHitCostOf(inputTokens, cacheHitRatio, inputPrice) ==
    RMul(perMillion(cacheHitsOf(inputTokens, cacheHitRatio), inputPrice),
         multipliers.cacheRead)

\* mutant: cache misses are charged the one-hour write factor
cacheMissCostAtOneHourRate(inputTokens, cacheHitRatio, inputPrice) ==
    RMul(perMillion(cacheMissesOf(inputTokens, cacheHitRatio), inputPrice),
         multipliers.cacheWrite1hr)

cacheMissCostOf(inputTokens, cacheHitRatio, inputPrice) ==
    RMul(perMillion(cacheMissesOf(inputTokens, cacheHitRatio), inputPrice),
         multipliers.cacheWrite5min)

Half == [n |-> 1, d |-> 2]

\* mutant: the batch factor itself is reported as the discount
batchDiscountAsFactor(baseCost, useBatch) == IF useBatch THEN Half ELSE Zero

\* mutant: the discount is computed after the cost has been halved
batchDiscountAfterHalving(baseCost, useBatch) ==
    IF useBatch THEN RMul(RMul(baseCost, Half), Half) ELSE Zero

\* batchDiscount = baseCost * 0.5 when useBatch, else 0
batchDiscountOf(baseCost, useBatch) == IF useBatch THEN RMul(baseCost, Half) ELSE Zero

\* mutant: the batch discount is reported but not taken off the cost
batchedCostNotReduced(baseCost, useBatch) == baseCost

\* baseCost = baseCost * 0.5 when useBatch
batchedCostOf(baseCost, useBatch) == IF useBatch THEN RMul(baseCost, Half) ELSE baseCost

reportedBaseCost(inputCost, outputCost, batchDiscount) ==
    RAdd(RAdd(inputCost, outputCost), IF RPos(batchDiscount) THEN batchDiscount ELSE Zero)

\* mutant: the premium is computed whatever the flag, with the prices swapped
longContextPremiumSwapped(longContext, inputPrice, baseInputPrice, inputTokens) ==
    RMul(RSub(baseInputPrice, inputPrice), RDivInt(Num(inputTokens), Million))

\* mutant: the base price is not taken off the selected price
longContextPremiumAtFullPrice(longContext, inputPrice, baseInputPrice, inputTokens) ==
    IF longContext
    THEN RMul(inputPrice, RDivInt(Num(inputTokens), Million))
    ELSE Zero

longContextPremiumOf(longContext, inputPrice, baseInputPrice, inputTokens) ==
    IF longContext
    THEN RMul(RSub(inputPrice, baseInputPrice), RDivInt(Num(inputTokens), Million))
    ELSE Zero

\* The CostCalculation object built for a model found in the catalogue
CostCalculation(model, inputTokens, outputTokens, thinkingTokens, useCache, cacheHitRatio, useBatch, longContext) ==
    LET totalOutputTokens == totalOutputTokensOf(outputTokens, thinkingTokens)
        inputPrice == selectInputPrice(model.pricing, longContext)
        outputPrice == selectOutputPrice(model.pricing, longContext)
        originalInputCost == perMillion(Num(inputTokens), inputPrice)
        outputCost == perMillion(Num(totalOutputTokens), outputPrice)
        inputCost ==
            IF useCache
            THEN RAdd(cacheHitCostOf(inputTokens, cacheHitRatio, inputPrice),
                      cacheMissCostOf(inputTokens, cacheHitRatio, inputPrice))
            ELSE originalInputCost
        cacheDiscount ==
            IF useCache THEN RSub(originalInputCost, inputCost) ELSE Zero
        baseCost == RAdd(inputCost, outputCost)
        batchDiscount == batchDiscountOf(baseCost, useBatch)
    IN  [ model |-> model.name,
          inputTokens |-> inputTokens,
          outputTokens |-> outputTokens,
          thinkingTokens |-> thinkingTokens,
          totalOutputTokens |-> totalOutputTokens,
          baseCost |-> reportedBaseCost(inputCost, outputCost, batchDiscount),
          cacheDiscount |-> cacheDiscount,
          batchDiscount |-> batchDiscount,
          longContextPremium |->
              longContextPremiumOf(longContext, inputPrice, model.pricing.input,
                                   inputTokens),
          finalCost |-> batchedCostOf(baseCost, useBatch),
          breakdown |-> [inputCost |-> inputCost, outputCost |-> outputCost] ]

toFixed6(x) == toFixed(x, Million)

\* The markdown rendering of a CostCalculation: the lines it prints
CostMarkdown(result) ==
    [ title |-> result.model,
      tokens |-> <<result.inputTokens, result.outputTokens,
                   result.thinkingTokens, result.totalOutputTokens>>,
      lines |->
          <<[label |-> "Input Cost", amount |-> toFixed6(result.breakdown.inputCost)],
            [label |-> "Output Cost", amount |-> toFixed6(result.breakdown.outputCost)]>>
          \o (IF RPos(result.cacheDiscount)
              THEN <<[label |-> "Cache Savings", amount |-> toFixed6(result.cacheDiscount)]>>
              ELSE <<>>)
          \o (IF RPos(result.batchDiscount)
              THEN <<[label |-> "Batch Savings", amount |-> toFixed6(result.batchDiscount)]>>
              ELSE <<>>)
          \o (IF RPos(result.longContextPremium)
              THEN <<[label |-> "Long Context Premium",
                      amount |-> toFixed6(result.longContextPremium)]>>
              ELSE <<>>),
      finalCost |-> toFixed6(result.finalCost) ]

calculateCost(modelKey, inputTokens, outputTokens, thinkingTokens, useCache, cacheHitRatio, useBatch, longContext, format) ==
    LET model == GetProperty(catalogue, modelKey)
    IN  IF Falsy(model)
        THEN ErrorString("Error: Model not found.", modelKey)
        ELSE IF model.kind = "inherited"
        THEN Thrown   \* model.pricing is undefined: reading .input throws
        ELSE LET result == CostCalculation(model.value, inputTokens, outputTokens,
                                           thinkingTokens, useCache, cacheHitRatio,
                                           useBatch, longContext)
             IN  IF format = "json" THEN Json(result) ELSE Markdown(CostMarkdown(result))

----------------------------------------------------------------------------
(* docs-service.ts: keyword search *)

UpperCase == "ABCDEFGHIJKLMNOPQRSTUVWXYZ"

LowerCase == "abcdefghijklmnopqrstuvwxyz"

\* the character at position i of s (from 1)
charAt(s, i) == SubSeq(s, i, i)

toLowerCaseChar(c) ==
    IF \E i \in 1..Len(UpperCase) : charAt(UpperCase, i) = c
    THEN charAt(LowerCase, CHOOSE i \in 1..Len(UpperCase) : charAt(UpperCase, i) = c)
    ELSE c

\* s.toLowerCase()
RECURSIVE toLowerCase(_)
toLowerCase(s) ==
    IF Len(s) = 0
    THEN ""
    ELSE toLowerCaseChar(charAt(s, 1)) \o toLowerCase(SubSeq(s, 2, Len(s)))

\* s.includes(t): t occurs in s as a contiguous substring
includes(s, t) ==
    \E i \in 0..(Len(s) - Len(t)) : SubSeq(s, i + 1, i + Len(t)) = t

\* array.some(f => f.toLowerCase().includes(q))
someFeatureIncludes(features, q) ==
    \E i \in 1..Len(features) : includes(toLowerCase(features[i]), q)

ThinkingKeywords ==
    << "think", "budget", "reasoning" >>

PricingKeywords ==
    << "price", "cost", "token", "$" >>

BetaHeaderKeywords ==
    << "beta", "header", "interleaved", "1m", "context" >>

includesAny(q, keywords) == \E i \in 1..Len(keywords) : includes(q, keywords[i])

One == Num(1)

ModelNameRelevance == One

ModelOtherRelevance == Norm(7, 10)

ThinkingRelevance == Norm(9, 10)

PricingRelevance == Norm(9, 10)

BetaHeadersRelevance == Norm(8, 10)

\* mutant: only the model's name is searched
modelMatchesNameOnly(model, lowerQuery) ==
    includes(toLowerCase(model.name), lowerQuery)

modelMatches(model, lowerQuery) ==
    \/ includes(toLowerCase(model.name), lowerQuery)
    \/ includes(toLowerCase(model.apiId), lowerQuery)
    \/ someFeatureIncludes(model.features, lowerQuery)

modelRelevance(model, lowerQuery) ==
    IF includes(toLowerCase(model.name), lowerQuery)
    THEN ModelNameRelevance
    ELSE ModelOtherRelevance

\* the results pushed by the loop over Object.entries(CLAUDE_MODELS), keys[i..]
RECURSIVE modelResults(_, _, _)
modelResults(keys, i, lowerQuery) ==
    IF i > Len(keys)
    THEN <<>>
    ELSE LET model == catalogue[keys[i]]
             here == IF modelMatches(model, lowerQuery)
                     THEN <<[ section |-> "Models",
                              content |-> formatModelMarkdown(model),
                              relevance |-> modelRelevance(model, lowerQuery) ]>>
                     ELSE <<>>
         IN  here \o modelResults(keys, i + 1, lowerQuery)

thinkingResults(lowerQuery) ==
    IF includesAny(lowerQuery, ThinkingKeywords)
    THEN <<[ section |-> "Extended Thinking",
             content |-> <<"getThinkingConfig", "markdown">>,
             relevance |-> ThinkingRelevance ]>>
    ELSE <<>>

\* mutant: the "$" keyword is not tested
pricingResultsWithoutDollar(lowerQuery) ==
    IF includesAny(lowerQuery, << "price", "cost", "token" >>)
    THEN <<[ section |-> "Pricing",
             content |-> getPricing("all", TRUE, "markdown").value,
             relevance |-> PricingRelevance ]>>
    ELSE <<>>

pricingResults(lowerQuery) ==
    IF includesAny(lowerQuery, PricingKeywords)
    THEN <<[ section |-> "Pricing",
             content |-> getPricing("all", TRUE, "markdown").value,
             relevance |-> PricingRelevance ]>>
    ELSE <<>>

betaHeaderResults(lowerQuery) ==
    IF includesAny(lowerQuery, BetaHeaderKeywords)
    THEN <<[ section |-> "Beta Headers",
             content |-> <<"getBetaHeaders", "markdown">>,
             relevance |-> BetaHeadersRelevance ]>>
    ELSE <<>>

\* mutant: the beta-headers group is not searched
unsortedResultsWithoutBetaHeaders(lowerQuery) ==
    modelResults(ModelKeys, 1, lowerQuery)
    \o thinkingResults(lowerQuery)
    \o pricingResults(lowerQuery)

\* the results array before it is sorted
unsortedResults(lowerQuery) ==
    modelResults(ModelKeys, 1, lowerQuery)
    \o thinkingResults(lowerQuery)
    \o pricingResults(lowerQuery)
    \o betaHeaderResults(lowerQuery)

\* mutant: x is placed in front of the elements of equal relevance (an unstable sort)
insertBeforeEqual(sorted, x) ==
    LET keep == { i \in 0..Len(sorted) :
                    \A j \in 1..i : RLt(x.relevance, sorted[j].relevance) }
        pos == CHOOSE i \in keep : \A k \in keep : k <= i
    IN  SubSeq(sorted, 1, pos) \o <<x>> \o SubSeq(sorted, pos + 1, Len(sorted))

\* x placed behind every element of the sorted list whose relevance is not smaller
insertByRelevance(sorted, x) ==
    LET keep == { i \in 0..Len(sorted) :
                    \A j \in 1..i : RLe(x.relevance, sorted[j].relevance) }
        pos == CHOOSE i \in keep : \A k \in keep : k <= i
    IN  SubSeq(sorted, 1, pos) \o <<x>> \o SubSeq(sorted, pos + 1, Len(sorted))

\* results.sort((a, b) => b.relevance - a.relevance): a stable sort, descending
RECURSIVE sortByRelevance(_)
sortByRelevance(results) ==
    IF results = <<>>
    THEN <<>>
    ELSE insertByRelevance(sortByRelevance(SubSeq(results, 1, Len(results) - 1)),
                           results[Len(results)])

MarkdownSectionLimit == 3

\* mutant: the markdown view is not truncated
allSections(results) == results

\* results.slice(0, 3)
topSections(results) ==
    SubSeq(results, 1, IF Len(results) < MarkdownSectionLimit
                       THEN Len(results) ELSE MarkdownSectionLimit)

\* what the markdown document prints of a result: "## section" and the content
renderSection(result) == [section |-> result.section, content |-> result.content]

\* the search terms the markdown no-results message proposes
SuggestedTerms ==
    << "models", "pricing", "tokens", "thinking", "beta headers" >>

searchDocs(query, format) ==
    LET lowerQuery == toLowerCase(query)
        results == sortByRelevance(unsortedResults(lowerQuery))
    IN  IF Len(results) = 0
        THEN IF format = "json"
             THEN Json([query |-> query, results |-> <<>>,
                        message |-> "No results found"])
             ELSE Markdown([heading |-> "No results found for", query |-> query,
                            suggestions |-> SuggestedTerms])
        ELSE IF format = "json"
             THEN Json([query |-> query, results |-> results])
             ELSE Markdown([heading |-> "Search Results for", query |-> query,
                            found |-> Len(results),
                            sections |-> [i \in 1..Len(topSections(results)) |->
                                             renderSection(topSections(results)[i])]])

----------------------------------------------------------------------------
(* The inputs the model draws.  Token counts are non-negative integers and the   *)
(* hit ratio lies in [0, 1], as CalculateCostSchema admits them; queries have     *)
(* the length SearchDocsSchema admits.                                            *)

\* token counts are multiples of Million / TokenGrid
TokenGrid == 4

MaxInputSteps == 2

MaxOutputSteps == 1

\* cache hit ratios are the multiples of 1 / RatioSteps in [0, 1]
RatioSteps == 10

TokenCounts(maxSteps) == { k * (Million \div TokenGrid) : k \in 0..maxSteps }

CacheHitRatios == { Norm(k, RatioSteps) : k \in 0..RatioSteps }

Formats == {"markdown", "json"}

\* identifiers a caller of the exported functions may pass: the catalogue's keys,
\* "all", a key that does not exist, and two names that every JavaScript object
\* inherits from Object.prototype (a function and the prototype object)
ModelKeyInputs ==
    {"opus_4_5", "sonnet_4_5", "haiku_4_5", "all", "gpt_4", "constructor", "__proto__"}

\* queries: every string over QueryAlphabet of MinQueryLen..MaxQueryLen characters,
\* and the queries the tool description and the messages name
MinQueryLen == 2

MaxQueryLen == 3

QueryAlphabet == {"P", "u", "z", "$"}

NamedQueries ==
    { "pricing",
      "zz",
      "budget tokens",
      "opus 4.5",
      "models",
      "tokens",
      "thinking",
      "beta headers",
      "claude",
      "context",
      "Vision",
      "cost",
      "Extended Thinking",
      "sonnet",
      "reasoning",
      "20251001",
      "1m",
      "header",
      "price",
      "interleaved" }

\* every string of n characters over QueryAlphabet
RECURSIVE StringsOfLength(_)
StringsOfLength(n) ==
    IF n = 0
    THEN {""}
    ELSE { s \o c : s \in StringsOfLength(n - 1), c \in QueryAlphabet }

Queries ==
    NamedQueries \cup UNION { StringsOfLength(n) : n \in MinQueryLen..MaxQueryLen }

\* the usage profiles the description of the cost tool and the documentation give as
\* examples: the basic request, the request with thinking, the request with cache
DocumentedProfiles ==
    { [ modelKey |-> "sonnet_4_5", inputTokens |-> 10000, outputTokens |-> 2000,
        thinkingTokens |-> t, useCache |-> c, cacheHitRatio |-> Norm(9, 10),
        useBatch |-> FALSE, longContext |-> FALSE ] :
        t \in {0, 5000}, c \in BOOLEAN }

\* every invocation of calculateCost the model makes
CalculateCostCalls ==
    { [ op |-> "calculateCost", modelKey |-> modelKey,
        inputTokens |-> inputTokens, outputTokens |-> outputTokens,
        thinkingTokens |-> thinkingTokens, useCache |-> useCache,
        cacheHitRatio |-> cacheHitRatio, useBatch |-> useBatch,
        longContext |-> longContext, format |-> format ] :
        modelKey \in ModelKeyInputs \ {"all"},
        inputTokens \in TokenCounts(MaxInputSteps),
        outputTokens \in TokenCounts(MaxOutputSteps),
        thinkingTokens \in TokenCounts(MaxOutputSteps),
        useCache \in BOOLEAN, cacheHitRatio \in CacheHitRatios,
        useBatch \in BOOLEAN, longContext \in BOOLEAN, format \in Formats }
    \cup
    { [ op |-> "calculateCost", modelKey |-> p.modelKey,
        inputTokens |-> p.inputTokens, outputTokens |-> p.outputTokens,
        thinkingTokens |-> p.thinkingTokens, useCache |-> p.useCache,
        cacheHitRatio |-> p.cacheHitRatio, useBatch |-> p.useBatch,
        longContext |-> p.longContext, format |-> format ] :
        p \in DocumentedProfiles, format \in Formats }

\* HTTP mode: the POST /mcp requests the model lets arrive
MaxRequests == 3

Requests == 1..MaxRequests

NoCall == [op |-> "none"]

NoMemo == [call |-> NoCall]

NoReturn == [kind |-> "none"]

----------------------------------------------------------------------------
(* The state machine: one call at a time is made and its outcome delivered *)

Init ==
    /\ catalogue = CLAUDE_MODELS
    /\ multipliers = PRICING_MULTIPLIERS
    /\ pc = "idle"
    /\ call = NoCall
    /\ ret = NoReturn
    /\ memo = NoMemo
    /\ handler = [r \in Requests |-> "absent"]
    /\ transport = [r \in Requests |-> "none"]
    /\ serverTransport = 0

\* the exported function the invocation c names, applied to c's arguments
Invoke(c) ==
    CASE c.op = "calculateCost" ->
             calculateCost(c.modelKey, c.inputTokens, c.outputTokens, c.thinkingTokens,
                           c.useCache, c.cacheHitRatio, c.useBatch, c.longContext,
                           c.format)
      [] c.op = "searchDocs" -> searchDocs(c.query, c.format)
      [] c.op = "getModelInfo" -> getModelInfo(c.modelKey, c.format)
      [] c.op = "getPricing" -> getPricing(c.modelKey, c.includeDiscounts, c.format)
      [] c.op = "getTokenLimits" -> getTokenLimits(c.modelKey, c.format)

\* mutant: the long-context price is written into the model's pricing object
CallCalculateCostRepricing ==
    /\ pc = "idle"
    /\ \E c \in CalculateCostCalls :
          /\ call' = c
          /\ ret' = Invoke(c)
          /\ catalogue' =
                IF /\ c.longContext
                   /\ c.modelKey \in DOMAIN catalogue
                   /\ TruthyField(catalogue[c.modelKey].pricing, "longContextInput")
                THEN [catalogue EXCEPT ![c.modelKey].pricing.input =
                                           catalogue[c.modelKey].pricing.longContextInput]
                ELSE catalogue
    /\ pc' = "done"
    /\ UNCHANGED <<multipliers, memo, httpVars>>

CallCalculateCost ==
    /\ pc = "idle"
    /\ \E c \in CalculateCostCalls :
          /\ call' = c
          /\ ret' = Invoke(c)
    /\ pc' = "done"
    /\ UNCHANGED <<catalogue, multipliers, memo, httpVars>>

\* mutant: the search lower-cases the names of the models in place
CallSearchDocsLoweringNames ==
    /\ pc = "idle"
    /\ \E query \in Queries, format \in Formats :
          /\ call' = [op |-> "searchDocs", query |-> query, format |-> format]
          /\ ret' = searchDocs(query, format)
    /\ pc' = "done"
    /\ catalogue' = [k \in DOMAIN catalogue |->
                         [catalogue[k] EXCEPT !.name = toLowerCase(@)]]
    /\ UNCHANGED <<multipliers, memo, httpVars>>

CallSearchDocs ==
    /\ pc = "idle"
    /\ \E query \in Queries, format \in Formats :
          /\ call' = [op |-> "searchDocs", query |-> query, format |-> format]
          /\ ret' = searchDocs(query, format)
    /\ pc' = "done"
    /\ UNCHANGED <<catalogue, multipliers, memo, httpVars>>

CallGetModelInfo ==
    /\ pc = "idle"
    /\ \E modelKey \in ModelKeyInputs, format \in Formats :
          /\ call' = [op |-> "getModelInfo", modelKey |-> modelKey, format |-> format]
          /\ ret' = getModelInfo(modelKey, format)
    /\ pc' = "done"
    /\ UNCHANGED <<catalogue, multipliers, memo, httpVars>>

CallGetPricing ==
    /\ pc = "idle"
    /\ \E modelKey \in ModelKeyInputs, includeDiscounts \in BOOLEAN, format \in Formats :
          /\ call' = [ op |-> "getPricing", modelKey |-> modelKey,
                       includeDiscounts |-> includeDiscounts, format |-> format ]
          /\ ret' = getPricing(modelKey, includeDiscounts, format)
    /\ pc' = "done"
    /\ UNCHANGED <<catalogue, multipliers, memo, httpVars>>

CallGetTokenLimits ==
    /\ pc = "idle"
    /\ \E modelKey \in ModelKeyInputs, format \in Formats :
          /\ call' = [op |-> "getTokenLimits", modelKey |-> modelKey, format |-> format]
          /\ ret' = getTokenLimits(modelKey, format)
    /\ pc' = "done"
    /\ UNCHANGED <<catalogue, multipliers, memo, httpVars>>

\* The caller takes the outcome; the service keeps nothing of the call
Deliver ==
    /\ pc = "done"
    /\ pc' = "idle"
    /\ call' = NoCall
    /\ ret' = NoReturn
    /\ UNCHANGED <<catalogue, multipliers, memo, httpVars>>

Next ==
    \/ CallCalculateCost
    \/ CallSearchDocs
    \/ CallGetModelInfo
    \/ CallGetPricing
    \/ CallGetTokenLimits
    \/ Deliver

Spec == Init /\ [][Next]_vars

----------------------------------------------------------------------------
(* The same invocation made twice.  A caller keeps one invocation of the cost     *)
(* calculator or of the search together with its outcome (memo); other calls run, *)
(* and the kept invocation is made again.                                          *)

\* the calls that run between the two invocations: a cost calculation with every
\* adjustment, one that throws, a search, and a lookup of an unknown model
InterleavedCalls ==
    { [ op |-> "calculateCost", modelKey |-> "sonnet_4_5",
        inputTokens |-> Million \div TokenGrid, outputTokens |-> Million \div TokenGrid,
        thinkingTokens |-> 0, useCache |-> TRUE, cacheHitRatio |-> Norm(1, 2),
        useBatch |-> TRUE, longContext |-> TRUE, format |-> "markdown" ],
      [ op |-> "calculateCost", modelKey |-> "constructor",
        inputTokens |-> 0, outputTokens |-> 0, thinkingTokens |-> 0,
        useCache |-> FALSE, cacheHitRatio |-> Zero, useBatch |-> FALSE,
        longContext |-> FALSE, format |-> "json" ],
      [ op |-> "searchDocs", query |-> "budget tokens", format |-> "json" ],
      [ op |-> "getPricing", modelKey |-> "gpt_4", includeDiscounts |-> TRUE,
        format |-> "markdown" ] }

\* the calls that run after the kept invocation: the search runs between two searches
\* and between two calculations of a documented profile, the other calls between
\* any two invocations
CallsBetween(kept) ==
    IF kept.op = "searchDocs" \/ kept.inputTokens \notin TokenCounts(MaxInputSteps)
    THEN InterleavedCalls
    ELSE { c \in InterleavedCalls : c.op # "searchDocs" }

\* The caller takes the outcome and keeps it with the invocation
Record ==
    /\ pc = "done"
    /\ memo = NoMemo
    /\ call.op \in {"calculateCost", "searchDocs"}
    /\ memo' = [call |-> call, ret |-> ret, between |-> FALSE]
    /\ pc' = "idle"
    /\ call' = NoCall
    /\ ret' = NoReturn
    /\ UNCHANGED <<catalogue, multipliers, httpVars>>

\* Another call runs after the kept one
Interleave ==
    /\ pc = "idle"
    /\ memo # NoMemo
    /\ \E c \in CallsBetween(memo.call) :
          /\ call' = c
          /\ ret' = Invoke(c)
    /\ pc' = "done"
    /\ memo' = [memo EXCEPT !.between = TRUE]
    /\ UNCHANGED <<catalogue, multipliers, httpVars>>

\* The kept invocation is made again, with identical arguments
Repeat ==
    /\ pc = "idle"
    /\ memo # NoMemo
    /\ call' = memo.call
    /\ ret' = Invoke(memo.call)
    /\ pc' = "done"
    /\ UNCHANGED <<catalogue, multipliers, memo, httpVars>>

NextRepeat ==
    \/ /\ memo = NoMemo
       /\ \/ CallCalculateCost
          \/ CallSearchDocs
          \/ CallGetModelInfo
          \/ CallGetPricing
          \/ CallGetTokenLimits
    \/ Deliver
    \/ Record
    \/ Interleave
    \/ Repeat

SpecRepeat == Init /\ [][NextRepeat]_vars

----------------------------------------------------------------------------
(* index.ts, runHTTP: the handler of POST /mcp.  Every request creates a transport *)
(* of its own, registers its close on the response's "close" event, connects the  *)
(* one server of the process to it and lets it handle the request.  The handler   *)
(* is an async function: other requests' handlers run while it awaits.            *)

\* a request whose handler has connected the server and has not yet returned
InFlight(r) == handler[r] \in {"connecting", "handling"}

\* The request arrives: new StreamableHTTPServerTransport, res.on("close", ...), and
\* the call of server.connect(transport), which runs up to the first await.  A server
\* that is connected to no transport takes the new one.  For a server that is still
\* connected the two behaviours of connect are kept: it takes the new transport in
\* place of the old one, or it refuses and the handler's promise rejects.
Post(r) ==
    /\ handler[r] = "absent"
    /\ transport' = [transport EXCEPT ![r] = "open"]
    /\ \/ /\ serverTransport' = r
          /\ handler' = [handler EXCEPT ![r] = "connecting"]
       \/ /\ serverTransport # 0
          /\ serverTransport' = serverTransport
          /\ handler' = [handler EXCEPT ![r] = "failed"]
    /\ UNCHANGED serviceVars

\* await server.connect(transport) resumes: transport.handleRequest(req, res, body)
\* is called
ConnectResolved(r) ==
    /\ handler[r] = "connecting"
    /\ handler' = [handler EXCEPT ![r] = "handling"]
    /\ UNCHANGED <<transport, serverTransport, serviceVars>>

\* await transport.handleRequest(...) resumes and the handler returns
HandleRequestResolved(r) ==
    /\ handler[r] = "handling"
    /\ handler' = [handler EXCEPT ![r] = "returned"]
    /\ UNCHANGED <<transport, serverTransport, serviceVars>>

\* The response's "close" event (the response has been sent, or the client has gone):
\* transport.close(); a server connected to this transport is connected to none
ResponseClosed(r) ==
    /\ transport[r] = "open"
    /\ transport' = [transport EXCEPT ![r] = "closed"]
    /\ serverTransport' = IF serverTransport = r THEN 0 ELSE serverTransport
    /\ UNCHANGED <<handler, serviceVars>>

NextHTTP ==
    \E r \in Requests :
        \/ Post(r)
        \/ ConnectResolved(r)
        \/ HandleRequestResolved(r)
        \/ ResponseClosed(r)

SpecHTTP == Init /\ [][NextHTTP]_vars

----------------------------------------------------------------------------
(* Properties of the cost calculator *)

CalcReturned == pc = "done" /\ call.op = "calculateCost"

\* a call for a catalogue model in the JSON format returns the CostCalculation itself
CostResultReturned ==
    CalcReturned /\ call.modelKey \in DOMAIN CLAUDE_MODELS /\ call.format = "json"

\* the outcome of the call in the state with some arguments replaced
CostResultWith(outputTokens, thinkingTokens, useBatch) ==
    calculateCost(call.modelKey, call.inputTokens, outputTokens, thinkingTokens,
                  call.useCache, call.cacheHitRatio, useBatch, call.longContext,
                  "json").value

\* input_tokens/1e6 x pricing.input + output_tokens/1e6 x pricing.output
PlainCost(modelKey, inputTokens, outputTokens) ==
    RAdd(RMul(Norm(inputTokens, Million), CLAUDE_MODELS[modelKey].pricing.input),
         RMul(Norm(outputTokens, Million), CLAUDE_MODELS[modelKey].pricing.output))

PlainProfile ==
    /\ call.thinkingTokens = 0
    /\ ~call.useCache
    /\ ~call.useBatch
    /\ ~call.longContext

\* C1: for every catalogue model and every profile with no thinking tokens and cache,
\* batch and long context disabled, the final cost is
\* input_tokens/1e6 x pricing.input + output_tokens/1e6 x pricing.output
\* (the markdown document prints that amount to six decimals).
C1_PlainFinalCost ==
    (CalcReturned /\ call.modelKey \in DOMAIN CLAUDE_MODELS /\ PlainProfile) =>
        LET expected == PlainCost(call.modelKey, call.inputTokens, call.outputTokens)
        IN  IF call.format = "json"
            THEN ret.kind = "json" /\ ret.value.finalCost = expected
            ELSE ret.kind = "markdown" /\ ret.value.finalCost = toFixed6(expected)

C1_Witness ==
    /\ CostResultReturned
    /\ PlainProfile
    /\ call.inputTokens > 0
    /\ call.outputTokens > 0
    /\ ret.value.finalCost = PlainCost(call.modelKey, call.inputTokens, call.outputTokens)

\* C2: in every CostCalculation, finalCost = baseCost - cacheDiscount - batchDiscount
\* + longContextPremium.
C2_FinalIsBaseMinusDiscountsPlusPremium ==
    CostResultReturned =>
        ret.value.finalCost =
            RAdd(RSub(RSub(ret.value.baseCost, ret.value.cacheDiscount),
                      ret.value.batchDiscount),
                 ret.value.longContextPremium)

\* C3 as stated: the cache discount is non-negative whenever use_cache is true and
\* cache_hit_ratio > 0, and zero whenever use_cache is false.
C3_DiscountNonNegativeForAnyPositiveRatio ==
    CostResultReturned =>
        /\ (call.useCache /\ RPos(call.cacheHitRatio)) => RLe(Zero, ret.value.cacheDiscount)
        /\ ~call.useCache => ret.value.cacheDiscount = Zero

\* the hit ratio at which 0.10 x r + 1.25 x (1 - r) = 1
BreakEvenRatio == Norm(5, 23)

\* C3 amended: the cache discount is zero whenever use_cache is false; with use_cache
\* it is non-negative when cache_hit_ratio >= 5/23 or input_tokens = 0, and negative
\* when cache_hit_ratio < 5/23 and input_tokens > 0.
C3_DiscountNonNegativeFromBreakEven ==
    CostResultReturned =>
        /\ ~call.useCache => ret.value.cacheDiscount = Zero
        /\ call.useCache =>
              (RLe(Zero, ret.value.cacheDiscount)
                 <=> (call.inputTokens = 0 \/ RLe(BreakEvenRatio, call.cacheHitRatio)))

C3_Witness ==
    /\ CostResultReturned
    /\ call.useCache
    /\ call.inputTokens > 0
    /\ RLe(BreakEvenRatio, call.cacheHitRatio)
    /\ RPos(ret.value.cacheDiscount)

\* C4: two profiles that differ only in use_batch: the final cost with batch is 0.5
\* times the final cost without, also with cache and long context enabled.
C4_BatchHalvesFinalCost ==
    CostResultReturned =>
        /\ call.useBatch =>
              ret.value.finalCost =
                  RMul(Half, CostResultWith(call.outputTokens, call.thinkingTokens,
                                            FALSE).finalCost)
        /\ ~call.useBatch =>
              CostResultWith(call.outputTokens, call.thinkingTokens, TRUE).finalCost =
                  RMul(Half, ret.value.finalCost)

C4_Witness ==
    /\ CostResultReturned
    /\ call.useBatch
    /\ call.useCache
    /\ call.longContext
    /\ RPos(ret.value.finalCost)
    /\ RMul(Num(2), ret.value.finalCost) =
          CostResultWith(call.outputTokens, call.thinkingTokens, FALSE).finalCost

\* C5: thinking tokens are billed as output tokens: totalOutputTokens = output_tokens +
\* thinking_tokens, and the final cost is the same when the whole sum is passed as
\* output tokens or as thinking tokens.
C5_ThinkingBilledAsOutput ==
    CostResultReturned =>
        LET total == call.outputTokens + call.thinkingTokens
        IN  /\ ret.value.totalOutputTokens = total
            /\ ret.value.finalCost = CostResultWith(total, 0, call.useBatch).finalCost
            /\ ret.value.finalCost = CostResultWith(0, total, call.useBatch).finalCost

C5_Witness ==
    /\ CostResultReturned
    /\ call.outputTokens = 0
    /\ call.thinkingTokens > 0
    /\ RPos(ret.value.finalCost)
    /\ ret.value.finalCost =
          CostResultWith(call.thinkingTokens, 0, call.useBatch).finalCost

DefinesLongContextPrices(modelKey) ==
    /\ "longContextInput" \in DOMAIN CLAUDE_MODELS[modelKey].pricing
    /\ "longContextOutput" \in DOMAIN CLAUDE_MODELS[modelKey].pricing

\* C6: the long-context premium is zero whenever long_context is false, and strictly
\* positive whenever long_context is true, the model defines long-context prices and
\* input_tokens > 0.
C6_LongContextPremiumSign ==
    CostResultReturned =>
        /\ ~call.longContext => ret.value.longContextPremium = Zero
        /\ (call.longContext /\ DefinesLongContextPrices(call.modelKey)
              /\ call.inputTokens > 0) => RPos(ret.value.longContextPremium)

C6_Witness ==
    /\ CostResultReturned
    /\ call.longContext
    /\ DefinesLongContextPrices(call.modelKey)
    /\ call.inputTokens > 0
    /\ RPos(ret.value.longContextPremium)

\* C7: for every identifier that is not a key of the catalogue calculateCost returns
\* the not-found error string (no cost result, no exception), and for every key of
\* the catalogue it returns a cost result.
C7_UnknownModelGivesErrorString ==
    CalcReturned =>
        /\ call.modelKey \notin DOMAIN CLAUDE_MODELS => ret.kind = "error"
        /\ call.modelKey \in DOMAIN CLAUDE_MODELS => ret.kind \in {"json", "markdown"}

----------------------------------------------------------------------------
(* Properties of the per-model lookups *)

LookupReturned ==
    pc = "done" /\ call.op \in {"getModelInfo", "getPricing", "getTokenLimits"}

\* C8: getModelInfo, getPricing and getTokenLimits, in either format, return a
\* not-found message for an identifier that is neither "all" nor a catalogue key.
C8_LookupOfUnknownModelGivesMessage ==
    (LookupReturned /\ call.modelKey # "all" /\ call.modelKey \notin DOMAIN CLAUDE_MODELS)
        => ret.kind = "error"

----------------------------------------------------------------------------
(* Properties of the search *)

SearchReturned == pc = "done" /\ call.op = "searchDocs"

\* the results a returned search document carries (the markdown one: those it shows)
ReturnedResults ==
    IF ret.kind = "json" THEN ret.value.results
    ELSE IF ret.value.heading = "Search Results for" THEN ret.value.sections
    ELSE <<>>

PricingQuery == "pricing"

\* C9: searchDocs("pricing") returns a list that includes the Pricing topic result
\* with relevance 0.9.
C9_PricingQueryFindsPricingTopic ==
    (SearchReturned /\ call.query = PricingQuery) =>
        \E i \in 1..Len(ReturnedResults) :
            /\ ReturnedResults[i].section = "Pricing"
            /\ ReturnedResults[i].relevance = Norm(9, 10)

\* the document says that nothing was found
NoResultsIndicated ==
    IF ret.kind = "json"
    THEN "message" \in DOMAIN ret.value /\ ret.value.message = "No results found"
    ELSE ret.value.heading = "No results found for"

\* the lower-cased query occurs in some model's name, API identifier or feature
QueryMatchesSomeModel(query) ==
    \E k \in DOMAIN CLAUDE_MODELS :
        \/ includes(toLowerCase(CLAUDE_MODELS[k].name), toLowerCase(query))
        \/ includes(toLowerCase(CLAUDE_MODELS[k].apiId), toLowerCase(query))
        \/ \E i \in 1..Len(CLAUDE_MODELS[k].features) :
              includes(toLowerCase(CLAUDE_MODELS[k].features[i]), toLowerCase(query))

\* the lower-cased query contains a keyword of one of the three topics
QueryContainsTopicKeyword(query) ==
    \E kw \in { ThinkingKeywords[i] : i \in 1..Len(ThinkingKeywords) }
          \cup { PricingKeywords[i] : i \in 1..Len(PricingKeywords) }
          \cup { BetaHeaderKeywords[i] : i \in 1..Len(BetaHeaderKeywords) } :
        includes(toLowerCase(query), kw)

\* C10: a query that matches no model and contains no topic keyword gets, in both
\* formats, an empty result set with the no-results indicator; and the indicator is
\* returned only when no group matched.
C10_NoResultsExactlyWhenNothingMatches ==
    SearchReturned =>
        LET nothing == ~QueryMatchesSomeModel(call.query)
                       /\ ~QueryContainsTopicKeyword(call.query)
        IN  /\ nothing => (NoResultsIndicated /\ ReturnedResults = <<>>)
            /\ NoResultsIndicated => nothing
            /\ ret.kind = call.format

C10_Witness ==
    /\ SearchReturned
    /\ call.query = "zz"
    /\ call.format = "json"
    /\ ret.value.results = <<>>
    /\ ret.value.message = "No results found"

\* C11: whenever searchDocs finds no match, its output carries suggested search terms
\* along with the no-results signal, in the markdown format and in the JSON format.
C11_NoResultsCarriesSuggestions ==
    (SearchReturned /\ NoResultsIndicated) =>
        /\ "suggestions" \in DOMAIN ret.value
        /\ Len(ret.value.suggestions) > 0

\* the place of a result in the order the groups are searched: the catalogue's models
\* in the catalogue's order, then the thinking, pricing and beta-headers topics
GenerationIndex(result) ==
    IF result.section = "Models"
    THEN CHOOSE i \in 1..Len(ModelKeys) :
             formatModelMarkdown(CLAUDE_MODELS[ModelKeys[i]]) = result.content
    ELSE IF result.section = "Extended Thinking" THEN Len(ModelKeys) + 1
    ELSE IF result.section = "Pricing" THEN Len(ModelKeys) + 2
    ELSE Len(ModelKeys) + 3

\* C12: for every query the result list is in non-increasing order of relevance, and
\* results of equal relevance keep their generation order (catalogue models in
\* catalogue order, then the thinking, pricing and beta-headers topics).
C12_SortedByRelevanceStable ==
    (SearchReturned /\ ret.kind = "json") =>
        \A i, j \in 1..Len(ret.value.results) :
            i < j =>
                /\ RLe(ret.value.results[j].relevance, ret.value.results[i].relevance)
                /\ ret.value.results[i].relevance = ret.value.results[j].relevance =>
                      GenerationIndex(ret.value.results[i])
                          < GenerationIndex(ret.value.results[j])

\* a list with a tie in which the sort has moved a topic in front of a model
C12_Witness ==
    /\ SearchReturned
    /\ ret.kind = "json"
    /\ \E i, j \in 1..Len(ret.value.results) :
          /\ i < j
          /\ GenerationIndex(ret.value.results[i]) > GenerationIndex(ret.value.results[j])
          /\ RLt(ret.value.results[j].relevance, ret.value.results[i].relevance)
    /\ \E i, j \in 1..Len(ret.value.results) :
          /\ i < j
          /\ ret.value.results[i].relevance = ret.value.results[j].relevance

\* the lower-cased query occurs in the model's name, API identifier or a feature
QueryInModel(k, query) ==
    \/ includes(toLowerCase(CLAUDE_MODELS[k].name), toLowerCase(query))
    \/ includes(toLowerCase(CLAUDE_MODELS[k].apiId), toLowerCase(query))
    \/ \E i \in 1..Len(CLAUDE_MODELS[k].features) :
          includes(toLowerCase(CLAUDE_MODELS[k].features[i]), toLowerCase(query))

\* the keyword sets as the specification lists them
StatedThinkingKeywords == {"think", "budget", "reasoning"}

StatedPricingKeywords == {"price", "cost", "token", "$"}

StatedBetaHeaderKeywords == {"beta", "header", "interleaved", "1m", "context"}

QueryHasKeyword(query, keywords) ==
    \E kw \in keywords : includes(toLowerCase(query), kw)

\* the number of groups (catalogue models and topics) the query matches
MatchCount(query) ==
    Cardinality({ k \in DOMAIN CLAUDE_MODELS : QueryInModel(k, query) })
    + (IF QueryHasKeyword(query, StatedThinkingKeywords) THEN 1 ELSE 0)
    + (IF QueryHasKeyword(query, StatedPricingKeywords) THEN 1 ELSE 0)
    + (IF QueryHasKeyword(query, StatedBetaHeaderKeywords) THEN 1 ELSE 0)

\* the sorted list of the query in the state: the list of the JSON view
SortedResultsOf(query) == searchDocs(query, "json").value.results

\* C13: for every query with n >= 1 matches the markdown view renders exactly the
\* first min(3, n) results of the sorted list, in order, and the JSON view contains
\* all n results in the same order.
C13_MarkdownTopThreeJsonAll ==
    (SearchReturned /\ MatchCount(call.query) >= 1) =>
        LET n == MatchCount(call.query)
            sorted == SortedResultsOf(call.query)
            shown == IF n < 3 THEN n ELSE 3
        IN  /\ Len(sorted) = n
            /\ call.format = "json" =>
                  /\ ret.kind = "json"
                  /\ ret.value.results = sorted
            /\ call.format = "markdown" =>
                  /\ ret.kind = "markdown"
                  /\ ret.value.heading = "Search Results for"
                  /\ ret.value.found = n
                  /\ Len(ret.value.sections) = shown
                  /\ \A i \in 1..shown :
                        /\ ret.value.sections[i].section = sorted[i].section
                        /\ ret.value.sections[i].content = sorted[i].content

\* a markdown document for a query with more than three matches
C13_Witness ==
    /\ SearchReturned
    /\ call.format = "markdown"
    /\ MatchCount(call.query) > 3
    /\ ret.value.found = MatchCount(call.query)
    /\ Len(ret.value.sections) = 3
    /\ ret.value.sections[1].section = SortedResultsOf(call.query)[1].section

\* the positions of the results that render the catalogue model k
ModelResultPositions(results, k) ==
    { i \in 1..Len(results) :
        /\ results[i].section = "Models"
        /\ results[i].content = formatModelMarkdown(CLAUDE_MODELS[k]) }

\* C14: for every query and every catalogue model, the search contributes exactly one
\* result for the model iff the lower-cased query is a substring of the lower-cased
\* name, API identifier or a feature of the model; its relevance is 1.0 when the
\* name contains the query and 0.7 otherwise.
C14_OneResultPerMatchingModel ==
    (SearchReturned /\ ret.kind = "json") =>
        /\ \A k \in DOMAIN CLAUDE_MODELS :
              LET hits == ModelResultPositions(ret.value.results, k)
              IN  /\ Cardinality(hits) = (IF QueryInModel(k, call.query) THEN 1 ELSE 0)
                  /\ \A i \in hits :
                        ret.value.results[i].relevance =
                            IF includes(toLowerCase(CLAUDE_MODELS[k].name),
                                        toLowerCase(call.query))
                            THEN Num(1)
                            ELSE Norm(7, 10)
        /\ \A i \in 1..Len(ret.value.results) :
              ret.value.results[i].section = "Models" =>
                  \E k \in DOMAIN CLAUDE_MODELS :
                      i \in ModelResultPositions(ret.value.results, k)

\* a query found in one model's API identifier only: that model at 0.7, no other model
C14_Witness ==
    /\ SearchReturned
    /\ ret.kind = "json"
    /\ \E k \in DOMAIN CLAUDE_MODELS :
          /\ ~includes(toLowerCase(CLAUDE_MODELS[k].name), toLowerCase(call.query))
          /\ includes(toLowerCase(CLAUDE_MODELS[k].apiId), toLowerCase(call.query))
          /\ \E i \in ModelResultPositions(ret.value.results, k) :
                ret.value.results[i].relevance = Norm(7, 10)
    /\ \E k \in DOMAIN CLAUDE_MODELS :
          /\ ~QueryInModel(k, call.query)
          /\ ModelResultPositions(ret.value.results, k) = {}

\* the positions of the results of a topic section
TopicPositions(results, section) ==
    { i \in 1..Len(results) : results[i].section = section }

\* the section occurs once, with the relevance, if present is TRUE, and not at all
\* otherwise
TopicResultIff(results, section, relevance, present) ==
    /\ Cardinality(TopicPositions(results, section)) = (IF present THEN 1 ELSE 0)
    /\ \A i \in TopicPositions(results, section) : results[i].relevance = relevance

\* C15: for every query the search contributes exactly one Extended Thinking result
\* with relevance 0.9 iff the lower-cased query contains "think", "budget" or
\* "reasoning"; exactly one Pricing result with relevance 0.9 iff it contains "price",
\* "cost", "token" or "$"; exactly one Beta Headers result with relevance 0.8 iff it
\* contains "beta", "header", "interleaved", "1m" or "context"; and no other topic
\* result.
C15_TopicResultsByKeyword ==
    (SearchReturned /\ ret.kind = "json") =>
        /\ TopicResultIff(ret.value.results, "Extended Thinking", Norm(9, 10),
                          QueryHasKeyword(call.query, StatedThinkingKeywords))
        /\ TopicResultIff(ret.value.results, "Pricing", Norm(9, 10),
                          QueryHasKeyword(call.query, StatedPricingKeywords))
        /\ TopicResultIff(ret.value.results, "Beta Headers", Norm(8, 10),
                          QueryHasKeyword(call.query, StatedBetaHeaderKeywords))
        /\ \A i \in 1..Len(ret.value.results) :
              ret.value.results[i].section
                  \in {"Models", "Extended Thinking", "Pricing", "Beta Headers"}

\* a query with keywords of two topics: both results, and none of the third topic
C15_Witness ==
    /\ SearchReturned
    /\ ret.kind = "json"
    /\ QueryHasKeyword(call.query, StatedThinkingKeywords)
    /\ QueryHasKeyword(call.query, StatedPricingKeywords)
    /\ ~QueryHasKeyword(call.query, StatedBetaHeaderKeywords)
    /\ Cardinality(TopicPositions(ret.value.results, "Extended Thinking")) = 1
    /\ Cardinality(TopicPositions(ret.value.results, "Pricing")) = 1
    /\ TopicPositions(ret.value.results, "Beta Headers") = {}

----------------------------------------------------------------------------
(* The documented example of the cost calculator *)

\* model "sonnet_4_5", input 10000, output 2000, thinking 5000, nothing else enabled
ExampleWithThinking ==
    /\ CalcReturned
    /\ call.modelKey = "sonnet_4_5"
    /\ call.inputTokens = 10000
    /\ call.outputTokens = 2000
    /\ call.thinkingTokens = 5000
    /\ ~call.useCache
    /\ ~call.useBatch
    /\ ~call.longContext

\* C20: calculateCost for "sonnet_4_5" with input 10000, output 2000, thinking 5000
\* and cache, batch and long context disabled yields total output tokens 7000, input
\* cost 0.03, output cost 0.105 and final cost 0.135.
C20_DocumentedExample ==
    ExampleWithThinking =>
        IF call.format = "json"
        THEN /\ ret.kind = "json"
             /\ ret.value.totalOutputTokens = 7000
             /\ ret.value.breakdown.inputCost = Norm(3, 100)
             /\ ret.value.breakdown.outputCost = Norm(105, 1000)
             /\ ret.value.finalCost = Norm(135, 1000)
        ELSE /\ ret.kind = "markdown"
             /\ ret.value.tokens[4] = 7000
             /\ ret.value.lines[1].amount = toFixed6(Norm(3, 100))
             /\ ret.value.lines[2].amount = toFixed6(Norm(105, 1000))
             /\ ret.value.finalCost = toFixed6(Norm(135, 1000))

C20_Witness ==
    /\ ExampleWithThinking
    /\ call.format = "json"
    /\ ret.value.model = "Claude Sonnet 4.5"
    /\ ret.value.totalOutputTokens = 7000
    /\ RMul(Num(1000), ret.value.finalCost) = Num(135)

----------------------------------------------------------------------------
(* Sign of the final cost, and the saving on cache hits *)

\* C18: for every catalogue model and every validated usage profile (non-negative
\* integer token counts, cache_hit_ratio in [0, 1], any combination of use_cache,
\* use_batch and long_context) the final cost is >= 0.
C18_FinalCostNonNegative ==
    (CalcReturned /\ call.modelKey \in DOMAIN CLAUDE_MODELS) =>
        IF call.format = "json"
        THEN ret.kind = "json" /\ RLe(Zero, ret.value.finalCost)
        ELSE ret.kind = "markdown" /\ ret.value.finalCost >= 0

\* every adjustment at once, at a hit ratio where caching costs more than it saves
C18_Witness ==
    /\ CostResultReturned
    /\ call.useCache
    /\ call.useBatch
    /\ call.longContext
    /\ call.inputTokens > 0
    /\ call.cacheHitRatio = Zero
    /\ RPos(ret.value.finalCost)
    /\ RLt(ret.value.cacheDiscount, Zero)

\* the input cost of the call in the state without caching
UncachedInputCost ==
    perMillion(Num(call.inputTokens),
               selectInputPrice(CLAUDE_MODELS[call.modelKey].pricing, call.longContext))

----------------------------------------------------------------------------
(* Determinism, and the shared tables *)

\* the invocation in the state is the kept one, made again
RepeatedReturned ==
    /\ pc = "done"
    /\ memo # NoMemo
    /\ call = memo.call

----------------------------------------------------------------------------
(* The breakdown, and how the adjustments compose *)

\* inputCost + outputCost as the breakdown of the returned result reports them
BreakdownSum == RAdd(ret.value.breakdown.inputCost, ret.value.breakdown.outputCost)

\* C21 as stated: in every CostResult the final cost equals the sum of the input cost
\* and the output cost reported in the breakdown, for every combination of use_cache
\* and use_batch.
C21_FinalIsBreakdownSum ==
    CostResultReturned => ret.value.finalCost = BreakdownSum

\* C21 amended: the breakdown is reported after the cache adjustment and before the
\* batch adjustment: the final cost equals the breakdown's sum minus the reported
\* batchDiscount, which is the sum itself without use_batch and half the sum with it.
C21_FinalIsBreakdownSumLessBatchDiscount ==
    CostResultReturned =>
        /\ ret.value.finalCost = RSub(BreakdownSum, ret.value.batchDiscount)
        /\ ~call.useBatch => ret.value.finalCost = BreakdownSum
        /\ call.useBatch => RMul(Num(2), ret.value.finalCost) = BreakdownSum

C21_Witness ==
    /\ CostResultReturned
    /\ call.useBatch
    /\ call.useCache
    /\ call.inputTokens > 0
    /\ call.outputTokens > 0
    /\ RLt(ret.value.finalCost, BreakdownSum)
    /\ ret.value.finalCost = RSub(BreakdownSum, ret.value.batchDiscount)

\* the prices the specification selects for a request: the long-context prices when
\* long_context is requested and the model lists them, the base prices otherwise
StatedInputPrice(modelKey, longContext) ==
    IF longContext /\ DefinesLongContextPrices(modelKey)
    THEN CLAUDE_MODELS[modelKey].pricing.longContextInput
    ELSE CLAUDE_MODELS[modelKey].pricing.input

StatedOutputPrice(modelKey, longContext) ==
    IF longContext /\ DefinesLongContextPrices(modelKey)
    THEN CLAUDE_MODELS[modelKey].pricing.longContextOutput
    ELSE CLAUDE_MODELS[modelKey].pricing.output

\* tokens / 1,000,000 x price
StatedCost(tokens, price) == RMul(Norm(tokens, Million), price)

\* (input x ratio) x cacheRead x price + (input x (1 - ratio)) x cacheWrite5min x price,
\* per million tokens
StatedCachedInputCost(inputTokens, ratio, price) ==
    RAdd(RMul(RMul(RDivInt(RMul(Num(inputTokens), ratio), Million),
                   PRICING_MULTIPLIERS.cacheRead), price),
         RMul(RMul(RDivInt(RMul(Num(inputTokens), RSub(Num(1), ratio)), Million),
                   PRICING_MULTIPLIERS.cacheWrite5min), price))

\* the input + output total of the call in the state after the cache adjustment
StatedPostCacheTotal ==
    RAdd(IF call.useCache
         THEN StatedCachedInputCost(call.inputTokens, call.cacheHitRatio,
                                    StatedInputPrice(call.modelKey, call.longContext))
         ELSE StatedCost(call.inputTokens,
                         StatedInputPrice(call.modelKey, call.longContext)),
         StatedCost(call.outputTokens + call.thinkingTokens,
                    StatedOutputPrice(call.modelKey, call.longContext)))

\* C22: cache and batch compose sequentially, cache first and batch second: with both
\* enabled the final cost is half of the post-cache input + output total; the
\* reported batchDiscount equals the amount removed by batching (final cost without
\* batch minus final cost with batch); with use_batch = false the batchDiscount is 0.
C22_CacheThenBatch ==
    CostResultReturned =>
        /\ (call.useCache /\ call.useBatch) =>
              ret.value.finalCost = RMul(Half, StatedPostCacheTotal)
        /\ call.useBatch =>
              ret.value.batchDiscount =
                  RSub(CostResultWith(call.outputTokens, call.thinkingTokens,
                                      FALSE).finalCost,
                       ret.value.finalCost)
        /\ ~call.useBatch => ret.value.batchDiscount = Zero

C22_Witness ==
    /\ CostResultReturned
    /\ call.useCache
    /\ call.useBatch
    /\ call.inputTokens > 0
    /\ RPos(call.cacheHitRatio)
    /\ RLt(call.cacheHitRatio, Num(1))
    /\ RPos(ret.value.batchDiscount)
    /\ RMul(Num(2), ret.value.batchDiscount) = StatedPostCacheTotal

\* the result of the call in the state with use_cache, or long_context, replaced
CostResultWithCache(useCache) ==
    calculateCost(call.modelKey, call.inputTokens, call.outputTokens,
                  call.thinkingTokens, useCache, call.cacheHitRatio, call.useBatch,
                  call.longContext, "json").value

CostResultWithLongContext(longContext) ==
    calculateCost(call.modelKey, call.inputTokens, call.outputTokens,
                  call.thinkingTokens, call.useCache, call.cacheHitRatio, call.useBatch,
                  longContext, "json").value

\* C23: when use_cache is true the input cost is (input x ratio) x cacheRead factor x
\* selected input price + (input x (1 - ratio)) x cacheWrite5min factor x selected
\* input price, per million tokens, the selected price being the long-context price
\* if that was selected; the reported cacheDiscount is the uncached input cost minus
\* this cost, and the output cost is unchanged.
C23_CachedInputCost ==
    (CostResultReturned /\ call.useCache) =>
        LET price == StatedInputPrice(call.modelKey, call.longContext)
            cached == StatedCachedInputCost(call.inputTokens, call.cacheHitRatio, price)
        IN  /\ ret.value.breakdown.inputCost = cached
            /\ ret.value.cacheDiscount = RSub(StatedCost(call.inputTokens, price), cached)
            /\ ret.value.breakdown.outputCost =
                  CostResultWithCache(FALSE).breakdown.outputCost
            /\ ret.value.breakdown.outputCost =
                  StatedCost(call.outputTokens + call.thinkingTokens,
                             StatedOutputPrice(call.modelKey, call.longContext))

C23_Witness ==
    /\ CostResultReturned
    /\ call.useCache
    /\ call.longContext
    /\ DefinesLongContextPrices(call.modelKey)
    /\ call.inputTokens > 0
    /\ call.outputTokens > 0
    /\ RPos(call.cacheHitRatio)
    /\ RLt(call.cacheHitRatio, Num(1))
    /\ ret.value.breakdown.inputCost =
          StatedCachedInputCost(call.inputTokens, call.cacheHitRatio,
                                CLAUDE_MODELS[call.modelKey].pricing.longContextInput)

\* C24: price selection is all-or-nothing: when long_context is true and the model
\* defines long-context prices, every input token and every output (and thinking)
\* token is priced at the long-context input / output price; when the model defines
\* no long-context prices, setting long_context changes no field of the result.
C24_LongContextPricesAllOrNothing ==
    CostResultReturned =>
        /\ (call.longContext /\ DefinesLongContextPrices(call.modelKey)) =>
              LET pricing == CLAUDE_MODELS[call.modelKey].pricing
              IN  /\ ret.value.breakdown.inputCost =
                        IF call.useCache
                        THEN StatedCachedInputCost(call.inputTokens, call.cacheHitRatio,
                                                   pricing.longContextInput)
                        ELSE StatedCost(call.inputTokens, pricing.longContextInput)
                  /\ ret.value.breakdown.outputCost =
                        StatedCost(call.outputTokens + call.thinkingTokens,
                                   pricing.longContextOutput)
        /\ ~DefinesLongContextPrices(call.modelKey) =>
              ret.value = CostResultWithLongContext(~call.longContext)

C24_Witness ==
    /\ CostResultReturned
    /\ call.longContext
    /\ DefinesLongContextPrices(call.modelKey)
    /\ ~call.useCache
    /\ call.inputTokens > 0
    /\ call.thinkingTokens > 0
    /\ ret.value.breakdown.inputCost =
          StatedCost(call.inputTokens,
                     CLAUDE_MODELS[call.modelKey].pricing.longContextInput)
    /\ RLt(StatedCost(call.inputTokens, CLAUDE_MODELS[call.modelKey].pricing.input),
           ret.value.breakdown.inputCost)

\* C25: the reported longContextPremium equals (selected input price - base input
\* price) x input_tokens / 1,000,000 and is informational only: the final cost is the
\* input + output total at the selected prices (halved with use_batch), to which the
\* premium is not added a second time.
C25_PremiumInformationalOnly ==
    CostResultReturned =>
        /\ ret.value.longContextPremium =
              RMul(RSub(StatedInputPrice(call.modelKey, call.longContext),
                        CLAUDE_MODELS[call.modelKey].pricing.input),
                   Norm(call.inputTokens, Million))
        /\ ret.value.finalCost =
              IF call.useBatch THEN RMul(Half, StatedPostCacheTotal)
              ELSE StatedPostCacheTotal

C25_Witness ==
    /\ CostResultReturned
    /\ call.longContext
    /\ DefinesLongContextPrices(call.modelKey)
    /\ call.inputTokens > 0
    /\ ~call.useBatch
    /\ RPos(ret.value.longContextPremium)
    /\ ret.value.finalCost = StatedPostCacheTotal
    /\ RLt(ret.value.finalCost, RAdd(StatedPostCacheTotal, ret.value.longContextPremium))

----------------------------------------------------------------------------
(* The search terms the no-results message proposes *)

\* C27: every search term that the markdown no-results message suggests ("models",
\* "pricing", "tokens", "thinking", "beta headers") itself yields at least one result
\* when passed to searchDocs.
C27_SuggestedTermsFindSomething ==
    (SearchReturned
       /\ call.query \in {"models", "pricing", "tokens", "thinking", "beta headers"}) =>
        /\ ~NoResultsIndicated
        /\ Len(ReturnedResults) >= 1

----------------------------------------------------------------------------
(* The price tables and the multipliers *)

\* the listed prices of a model are the stated multiples of its base prices
ListedPricesAreMultiples(pricing) ==
    /\ pricing.cacheWrite5min = RMul(Norm(125, 100), pricing.input)
    /\ pricing.cacheWrite1hr = RMul(Norm(200, 100), pricing.input)
    /\ pricing.cacheRead = RMul(Norm(10, 100), pricing.input)
    /\ "longContextInput" \in DOMAIN pricing =>
          pricing.longContextInput = RMul(Norm(200, 100), pricing.input)
    /\ "longContextOutput" \in DOMAIN pricing =>
          pricing.longContextOutput = RMul(Norm(150, 100), pricing.output)

\* the listed prices of a model are the calculator's multipliers times its base prices
ListedPricesMatchMultipliers(pricing) ==
    /\ pricing.cacheWrite5min = RMul(multipliers.cacheWrite5min, pricing.input)
    /\ pricing.cacheWrite1hr = RMul(multipliers.cacheWrite1hr, pricing.input)
    /\ pricing.cacheRead = RMul(multipliers.cacheRead, pricing.input)
    /\ "longContextInput" \in DOMAIN pricing =>
          pricing.longContextInput = RMul(multipliers.longContextInput, pricing.input)
    /\ "longContextOutput" \in DOMAIN pricing =>
          pricing.longContextOutput = RMul(multipliers.longContextOutput, pricing.output)

\* the cached input cost at the model's listed cache-read and cache-write prices
ListedCachedInputCost(inputTokens, ratio, pricing) ==
    RAdd(RMul(RDivInt(RMul(Num(inputTokens), ratio), Million), pricing.cacheRead),
         RMul(RDivInt(RMul(Num(inputTokens), RSub(Num(1), ratio)), Million),
              pricing.cacheWrite5min))

----------------------------------------------------------------------------
(* The HTTP transport *)

\* C26: in HTTP mode the shared server is never connected to a second transport while
\* the transport of another in-flight request is still open, under any interleaving
\* of concurrent requests.
C26_OneOpenTransportPerConnection ==
    \A r, q \in Requests :
        (serverTransport = r /\ q # r /\ InFlight(q)) => transport[q] # "open"

====
